---- MODULE Spec2Model ----
(***************************************************************************)
(* Tic-tac-toe: the gameBoard and gameControl modules of src/script.js     *)
(* (the final versions, lines 160-425) as a state machine.  Every public   *)
(* function of gameControl is one action; the functions of gameBoard they  *)
(* call are operators over the board's grid and numMarks.                  *)
(***************************************************************************)
EXTENDS Integers, Sequences, FiniteSets, TLC

VARIABLES
    grid,       \* gameBoard.grid: 3 rows of 3 cells
    numMarks,   \* gameBoard.numMarks
    player1,    \* gameControl.player1: Undefined or a player object
    player2,    \* gameControl.player2
    turn,       \* gameControl.turn: TurnNull, 1 or 2
    op,         \* the last call made on gameControl; for playTurn, with what
                \* grid[i][j] evaluated to when isBlank read it
    ret,        \* how that call ended: the value returned or the error thrown
    winRounds,  \* history: number of playTurn calls that returned xWin or oWin
    lastMark,   \* history: the mark the last placement of this round wrote,
                \* Null when the round has none yet
    snap,       \* the array a caller holds from getGridCopy: NoSnap, or its
                \* rows and, per row, whether it is the board's own row array
    ui          \* gameDisplay: which buttons the page offers and whether the
                \* results dialog is open

vars == <<grid, numMarks, player1, player2, turn, op, ret, winRounds, lastMark,
          snap, ui>>

\* what the program itself stores
core == <<grid, numMarks, player1, player2, turn>>

(***************************************************************************)
(* Bounds of the exploration                                               *)
(***************************************************************************)
\* the turns of a round are played only while fewer than this many rounds
\* have been won
MaxTotalScore == 1

\* with getGridCopy in play, placeMark is called only while numMarks is
\* below this
MaxCopyMarks == 3

\* the validating gameBoard is given marks only while numMarks is below this
MaxStrictMarks == 4

(***************************************************************************)
(* Values                                                                  *)
(***************************************************************************)
Null == "null"
MARK_X == "x"
MARK_O == "o"

\* the value of `turn` before a game and after endGame (null in the code)
TurnNull == 0

states == [xWin |-> "xWin", oWin |-> "oWin", tie |-> "tie", ongoing |-> "ongoing"]

Undefined == [tag |-> "undefined"]

\* no array was handed out by getGridCopy yet
NoSnap == [tag |-> "none"]

\* the page as it is loaded: the button that opens the create-players dialog
\* is there, the restart button is not shown, the results dialog is closed
UiInit == [playersButton |-> TRUE, restartShown |-> FALSE, resultsOpen |-> FALSE]

\* indices of the rows and of the columns of the grid
Indices == 0 .. 2

\* the arguments playTurn is called with: the cells, and one index on each
\* side outside the grid
CoordInputs == -1 .. 3

\* the name pairs createPlayers is called with
NameInputs == {<<"Ann", "Bo">>, <<"Bo", "Ann">>}

\* a call ends by returning a value or by throwing
Return(v) == [thrown |-> FALSE, val |-> v]
Throw(msg) == [thrown |-> TRUE, val |-> msg]

\* `return false` of placeMark and playTurn
RetFalse == Return("false")
\* a function that ends without a return statement
RetVoid == Return("undefined")

ErrAlreadyCreated == Throw("The players are already created")
ErrInProgress == Throw("A game is already in progress")
ErrNoPlayers == Throw("Players must be created first")
ErrNotStarted == Throw("A game has not started yet")
\* grid[i] is undefined for i outside 0..2, and reading [j] of it throws
ErrTypeError == Throw("TypeError")

(***************************************************************************)
(* gameBoard                                                               *)
(***************************************************************************)
\* winnerConfigs whose last diagonal names cell (2, 1) in place of (2, 0)
winnerConfigsSlip == <<
    <<TRUE , TRUE , TRUE , FALSE, FALSE, FALSE, FALSE, FALSE, FALSE>>,
    <<FALSE, FALSE, FALSE, TRUE , TRUE , TRUE , FALSE, FALSE, FALSE>>,
    <<FALSE, FALSE, FALSE, FALSE, FALSE, FALSE, TRUE , TRUE , TRUE >>,
    <<TRUE , FALSE, FALSE, TRUE , FALSE, FALSE, TRUE , FALSE, FALSE>>,
    <<FALSE, TRUE , FALSE, FALSE, TRUE , FALSE, FALSE, TRUE , FALSE>>,
    <<FALSE, FALSE, TRUE , FALSE, FALSE, TRUE , FALSE, FALSE, TRUE >>,
    <<TRUE , FALSE, FALSE, FALSE, TRUE , FALSE, FALSE, FALSE, TRUE >>,
    <<FALSE, FALSE, TRUE , FALSE, TRUE , FALSE, FALSE, TRUE , FALSE>> >>

\* winnerConfigs whose first row repeats the second
winnerConfigsNoTopRow == <<
    <<FALSE, FALSE, FALSE, TRUE , TRUE , TRUE , FALSE, FALSE, FALSE>>,
    <<FALSE, FALSE, FALSE, TRUE , TRUE , TRUE , FALSE, FALSE, FALSE>>,
    <<FALSE, FALSE, FALSE, FALSE, FALSE, FALSE, TRUE , TRUE , TRUE >>,
    <<TRUE , FALSE, FALSE, TRUE , FALSE, FALSE, TRUE , FALSE, FALSE>>,
    <<FALSE, TRUE , FALSE, FALSE, TRUE , FALSE, FALSE, TRUE , FALSE>>,
    <<FALSE, FALSE, TRUE , FALSE, FALSE, TRUE , FALSE, FALSE, TRUE >>,
    <<TRUE , FALSE, FALSE, FALSE, TRUE , FALSE, FALSE, FALSE, TRUE >>,
    <<FALSE, FALSE, TRUE , FALSE, TRUE , FALSE, TRUE , FALSE, FALSE>> >>

winnerConfigs == <<
    <<TRUE , TRUE , TRUE , FALSE, FALSE, FALSE, FALSE, FALSE, FALSE>>,
    <<FALSE, FALSE, FALSE, TRUE , TRUE , TRUE , FALSE, FALSE, FALSE>>,
    <<FALSE, FALSE, FALSE, FALSE, FALSE, FALSE, TRUE , TRUE , TRUE >>,
    <<TRUE , FALSE, FALSE, TRUE , FALSE, FALSE, TRUE , FALSE, FALSE>>,
    <<FALSE, TRUE , FALSE, FALSE, TRUE , FALSE, FALSE, TRUE , FALSE>>,
    <<FALSE, FALSE, TRUE , FALSE, FALSE, TRUE , FALSE, FALSE, TRUE >>,
    <<TRUE , FALSE, FALSE, FALSE, TRUE , FALSE, FALSE, FALSE, TRUE >>,
    <<FALSE, FALSE, TRUE , FALSE, TRUE , FALSE, TRUE , FALSE, FALSE>> >>

EmptyGrid == [i \in Indices |-> [j \in Indices |-> Null]]

\* grid.flat(): the nine cells row by row
Flat(g) == [k \in 1 .. 9 |-> g[(k - 1) \div 3][(k - 1) % 3]]

\* the test with `some` in place of `every`: one cell of the config suffices
IsMarkWinnerSome(gridFlat, config, mark) ==
    \E k \in 1 .. 9 : (gridFlat[k] = mark) /\ config[k]

\* the test of one config and one mark in computeWinningMark:
\* map each cell to (val === mark && config[i]), then compare with config
IsMarkWinner(gridFlat, config, mark) ==
    \A k \in 1 .. 9 : ((gridFlat[k] = mark) /\ config[k]) = config[k]

\* the scan order of computeWinningMark: configs outermost, then x before o
ScanOrder == [n \in 1 .. 16 |->
                 [config |-> winnerConfigs[((n - 1) \div 2) + 1],
                  mark |-> IF (n - 1) % 2 = 0 THEN MARK_X ELSE MARK_O]]

computeWinningMark(g) ==
    LET gridFlat == Flat(g)
        hits == {n \in 1 .. 16 :
                    IsMarkWinner(gridFlat, ScanOrder[n].config, ScanOrder[n].mark)}
    IN  IF hits = {} THEN Null
        ELSE ScanOrder[CHOOSE n \in hits : \A m \in hits : n <= m].mark

\* computeState testing the fill count before the winning mark
computeStateTieFirst(g, n) ==
    LET winningMark == computeWinningMark(g)
    IN  IF n = 9 THEN states.tie
        ELSE IF winningMark # Null
        THEN (IF winningMark = MARK_X THEN states.xWin ELSE states.oWin)
        ELSE states.ongoing

\* computeState with the two win states exchanged
computeStateSwapped(g, n) ==
    LET winningMark == computeWinningMark(g)
        isTie == winningMark = Null /\ n = 9
    IN  IF winningMark # Null
        THEN (IF winningMark = MARK_X THEN states.oWin ELSE states.xWin)
        ELSE IF isTie THEN states.tie
        ELSE states.ongoing

\* computeState without the tie case
computeStateNoTie(g, n) ==
    LET winningMark == computeWinningMark(g)
    IN  IF winningMark # Null
        THEN (IF winningMark = MARK_X THEN states.xWin ELSE states.oWin)
        ELSE states.ongoing

computeState(g, n) ==
    LET winningMark == computeWinningMark(g)
        isTie == winningMark = Null /\ n = 9
    IN  IF winningMark # Null
        THEN (IF winningMark = MARK_X THEN states.xWin ELSE states.oWin)
        ELSE IF isTie THEN states.tie
        ELSE states.ongoing

\* grid[i][j] as JavaScript reads it: "TypeError" when grid[i] is undefined,
\* "undefined" when the row exists and j is not one of its indices
ReadCell(g, i, j) ==
    IF i \notin Indices THEN "TypeError"
    ELSE IF j \notin Indices THEN "undefined"
    ELSE g[i][j]

isBlank(g, i, j) == ReadCell(g, i, j) = Null

\* placeMark without the isBlank test on a cell of the grid: an occupied cell
\* is overwritten
placeMarkOverwrite(g, n, i, j, mark) ==
    IF ReadCell(g, i, j) \in {"TypeError", "undefined"}
    THEN [grid |-> g, numMarks |-> n,
          ret |-> IF i \in Indices THEN RetFalse ELSE ErrTypeError]
    ELSE LET g2 == [g EXCEPT ![i][j] = mark]
             n2 == n + 1
         IN  [grid |-> g2, numMarks |-> n2, ret |-> Return(computeState(g2, n2))]

\* placeMark that counts the mark before it tests the cell
placeMarkCountsFirst(g, n, i, j, mark) ==
    IF ReadCell(g, i, j) = "TypeError"
    THEN [grid |-> g, numMarks |-> n, ret |-> ErrTypeError]
    ELSE IF ~isBlank(g, i, j)
    THEN [grid |-> g, numMarks |-> n + 1, ret |-> RetFalse]
    ELSE LET g2 == [g EXCEPT ![i][j] = mark]
             n2 == n + 1
         IN  [grid |-> g2, numMarks |-> n2, ret |-> Return(computeState(g2, n2))]

\* placeMark that computes the state before it writes the mark
placeMarkStateFirst(g, n, i, j, mark) ==
    IF ReadCell(g, i, j) = "TypeError"
    THEN [grid |-> g, numMarks |-> n, ret |-> ErrTypeError]
    ELSE IF ~isBlank(g, i, j)
    THEN [grid |-> g, numMarks |-> n, ret |-> RetFalse]
    ELSE LET g2 == [g EXCEPT ![i][j] = mark]
             n2 == n + 1
         IN  [grid |-> g2, numMarks |-> n2, ret |-> Return(computeState(g, n))]

\* placeMark without `numMarks++`
placeMarkNoCount(g, n, i, j, mark) ==
    IF ReadCell(g, i, j) = "TypeError"
    THEN [grid |-> g, numMarks |-> n, ret |-> ErrTypeError]
    ELSE IF ~isBlank(g, i, j)
    THEN [grid |-> g, numMarks |-> n, ret |-> RetFalse]
    ELSE LET g2 == [g EXCEPT ![i][j] = mark]
         IN  [grid |-> g2, numMarks |-> n, ret |-> Return(computeState(g2, n))]

\* placeMark(i, j, mark): the board after the call and what the call gives.
\* A row outside the grid makes isBlank throw; an occupied cell, or a column
\* outside the grid, returns false without writing.
placeMark(g, n, i, j, mark) ==
    IF ReadCell(g, i, j) = "TypeError"
    THEN [grid |-> g, numMarks |-> n, ret |-> ErrTypeError]
    ELSE IF ~isBlank(g, i, j)
    THEN [grid |-> g, numMarks |-> n, ret |-> RetFalse]
    ELSE LET g2 == [g EXCEPT ![i][j] = mark]
             n2 == n + 1
         IN  [grid |-> g2, numMarks |-> n2, ret |-> Return(computeState(g2, n2))]

\* resetBoard without `numMarks = 0`
resetBoardKeepsCount == [grid |-> EmptyGrid, numMarks |-> numMarks]

\* resetBoard(): every row replaced by a row of nulls, numMarks zeroed
resetBoard == [grid |-> EmptyGrid, numMarks |-> 0]

(***************************************************************************)
(* createPlayer                                                            *)
(***************************************************************************)
createPlayer(name) == [name |-> name, score |-> 0]

\* incrementScore adding two
incrementScoreTwice(p) == [p EXCEPT !.score = @ + 2]

incrementScore(p) == [p EXCEPT !.score = @ + 1]

(***************************************************************************)
(* gameControl                                                             *)
(***************************************************************************)
hasGameBegun == turn # TurnNull

\* toggleTurn that leaves the turn with the same player
toggleTurnStuck(t) == t

toggleTurn(t) == IF t = 1 THEN 2 ELSE 1

\* endGame that leaves the turn as it is
endGameNoop == turn

\* endGame(): the value it stores in `turn`
endGame == TurnNull

\* getNextMark with the two marks exchanged
getNextMarkSwapped ==
    IF ~hasGameBegun THEN Null ELSE IF turn = 1 THEN MARK_O ELSE MARK_X

getNextMark == IF ~hasGameBegun THEN Null ELSE IF turn = 1 THEN MARK_X ELSE MARK_O

Init ==
    /\ grid = EmptyGrid
    /\ numMarks = 0
    /\ player1 = Undefined
    /\ player2 = Undefined
    /\ turn = TurnNull
    /\ op = [name |-> "init"]
    /\ ret = RetVoid
    /\ winRounds = 0
    /\ lastMark = Null
    /\ snap = NoSnap
    /\ ui = UiInit

\* createPlayers without the test that the players exist
CreatePlayersAgain(name1, name2) ==
    /\ UNCHANGED <<snap, ui>>
    /\ op' = [name |-> "createPlayers"]
    /\ IF hasGameBegun
       THEN /\ ret' = ErrInProgress
            /\ UNCHANGED <<player1, player2>>
       ELSE /\ player1' = createPlayer(name1)
            /\ player2' = createPlayer(name2)
            /\ ret' = RetVoid
    /\ UNCHANGED <<grid, numMarks, turn, winRounds, lastMark>>

\* createPlayers with its two tests in the other order
CreatePlayersSwapped(name1, name2) ==
    /\ UNCHANGED <<snap, ui>>
    /\ op' = [name |-> "createPlayers"]
    /\ IF hasGameBegun
       THEN /\ ret' = ErrInProgress
            /\ UNCHANGED <<player1, player2>>
       ELSE IF player1 # Undefined /\ player2 # Undefined
       THEN /\ ret' = ErrAlreadyCreated
            /\ UNCHANGED <<player1, player2>>
       ELSE /\ player1' = createPlayer(name1)
            /\ player2' = createPlayer(name2)
            /\ ret' = RetVoid
    /\ UNCHANGED <<grid, numMarks, turn, winRounds, lastMark>>

CreatePlayers(name1, name2) ==
    /\ UNCHANGED <<snap, ui>>
    /\ op' = [name |-> "createPlayers"]
    /\ IF player1 # Undefined /\ player2 # Undefined
       THEN /\ ret' = ErrAlreadyCreated
            /\ UNCHANGED <<player1, player2>>
       ELSE IF hasGameBegun
       THEN /\ ret' = ErrInProgress
            /\ UNCHANGED <<player1, player2>>
       ELSE /\ player1' = createPlayer(name1)
            /\ player2' = createPlayer(name2)
            /\ ret' = RetVoid
    /\ UNCHANGED <<grid, numMarks, turn, winRounds, lastMark>>

\* playGame without the test that the players exist
PlayGameNoPlayersCheck ==
    /\ UNCHANGED <<snap, ui>>
    /\ op' = [name |-> "playGame"]
    /\ IF hasGameBegun
       THEN /\ ret' = ErrInProgress
            /\ UNCHANGED <<grid, numMarks, turn, lastMark>>
       ELSE /\ grid' = resetBoard.grid
            /\ numMarks' = resetBoard.numMarks
            /\ turn' = 1
            /\ lastMark' = Null
            /\ ret' = RetVoid
    /\ UNCHANGED <<player1, player2, winRounds>>

\* playGame that gives the first turn to player 2
PlayGameSecondStarts ==
    /\ UNCHANGED <<snap, ui>>
    /\ op' = [name |-> "playGame"]
    /\ IF player1 = Undefined \/ player2 = Undefined
       THEN /\ ret' = ErrNoPlayers
            /\ UNCHANGED <<grid, numMarks, turn, lastMark>>
       ELSE IF hasGameBegun
       THEN /\ ret' = ErrInProgress
            /\ UNCHANGED <<grid, numMarks, turn, lastMark>>
       ELSE /\ grid' = resetBoard.grid
            /\ numMarks' = resetBoard.numMarks
            /\ turn' = 2
            /\ lastMark' = Null
            /\ ret' = RetVoid
    /\ UNCHANGED <<player1, player2, winRounds>>

\* playGame without its call of resetBoard
PlayGameNoReset ==
    /\ UNCHANGED <<snap, ui>>
    /\ op' = [name |-> "playGame"]
    /\ IF player1 = Undefined \/ player2 = Undefined
       THEN /\ ret' = ErrNoPlayers
            /\ UNCHANGED <<turn, lastMark>>
       ELSE IF hasGameBegun
       THEN /\ ret' = ErrInProgress
            /\ UNCHANGED <<turn, lastMark>>
       ELSE /\ turn' = 1
            /\ lastMark' = Null
            /\ ret' = RetVoid
    /\ UNCHANGED <<grid, numMarks, player1, player2, winRounds>>

\* playGame that makes fresh players for the new round
PlayGameFreshPlayers ==
    /\ UNCHANGED <<snap, ui>>
    /\ op' = [name |-> "playGame"]
    /\ IF player1 = Undefined \/ player2 = Undefined
       THEN /\ ret' = ErrNoPlayers
            /\ UNCHANGED <<grid, numMarks, turn, lastMark, player1, player2>>
       ELSE IF hasGameBegun
       THEN /\ ret' = ErrInProgress
            /\ UNCHANGED <<grid, numMarks, turn, lastMark, player1, player2>>
       ELSE /\ grid' = resetBoard.grid
            /\ numMarks' = resetBoard.numMarks
            /\ turn' = 1
            /\ lastMark' = Null
            /\ player1' = createPlayer(player1.name)
            /\ player2' = createPlayer(player2.name)
            /\ ret' = RetVoid
    /\ UNCHANGED winRounds

\* playGame that resets the board before it tests for a round in progress
PlayGameResetFirst ==
    /\ UNCHANGED <<snap, ui>>
    /\ op' = [name |-> "playGame"]
    /\ IF player1 = Undefined \/ player2 = Undefined
       THEN /\ ret' = ErrNoPlayers
            /\ UNCHANGED <<grid, numMarks, turn, lastMark>>
       ELSE /\ grid' = resetBoard.grid
            /\ numMarks' = resetBoard.numMarks
            /\ IF hasGameBegun
               THEN /\ ret' = ErrInProgress
                    /\ UNCHANGED <<turn, lastMark>>
               ELSE /\ turn' = 1
                    /\ lastMark' = Null
                    /\ ret' = RetVoid
    /\ UNCHANGED <<player1, player2, winRounds>>

PlayGame ==
    /\ UNCHANGED <<snap, ui>>
    /\ op' = [name |-> "playGame"]
    /\ IF player1 = Undefined \/ player2 = Undefined
       THEN /\ ret' = ErrNoPlayers
            /\ UNCHANGED <<grid, numMarks, turn, lastMark>>
       ELSE IF hasGameBegun
       THEN /\ ret' = ErrInProgress
            /\ UNCHANGED <<grid, numMarks, turn, lastMark>>
       ELSE /\ grid' = resetBoard.grid
            /\ numMarks' = resetBoard.numMarks
            /\ turn' = 1
            /\ lastMark' = Null
            /\ ret' = RetVoid
    /\ UNCHANGED <<player1, player2, winRounds>>

PlayersExist == player1 # Undefined /\ player2 # Undefined

\* the total of the scores, 0 while the players do not exist
TotalScore ==
    IF player1 = Undefined \/ player2 = Undefined THEN 0
    ELSE player1.score + player2.score

PlayTurn(i, j) ==
    /\ UNCHANGED <<snap, ui>>
    /\ hasGameBegun => TotalScore < MaxTotalScore
    /\ op' = [name |-> "playTurn",
              read |-> IF hasGameBegun THEN ReadCell(grid, i, j) ELSE "none"]
    /\ IF ~hasGameBegun
       THEN /\ ret' = ErrNotStarted
            /\ UNCHANGED <<grid, numMarks, player1, player2, turn, winRounds, lastMark>>
       ELSE LET markToPlace == IF turn = 1 THEN MARK_X ELSE MARK_O
            IN  \E placed \in {placeMark(grid, numMarks, i, j, markToPlace)} :
                LET gameState == placed.ret IN
                /\ grid' = placed.grid
                /\ numMarks' = placed.numMarks
                /\ ret' = gameState
                /\ IF gameState.thrown \/ gameState = RetFalse
                   THEN UNCHANGED <<player1, player2, turn, winRounds, lastMark>>
                   ELSE /\ lastMark' = markToPlace
                        /\ IF gameState.val = states.ongoing
                           THEN /\ turn' = toggleTurn(turn)
                                /\ UNCHANGED <<player1, player2, winRounds>>
                           ELSE IF gameState.val = states.xWin
                           THEN /\ player1' = incrementScore(player1)
                                /\ turn' = endGame
                                /\ winRounds' = winRounds + 1
                                /\ UNCHANGED player2
                           ELSE IF gameState.val = states.oWin
                           THEN /\ player2' = incrementScore(player2)
                                /\ turn' = endGame
                                /\ winRounds' = winRounds + 1
                                /\ UNCHANGED player1
                           ELSE /\ turn' = endGame
                                /\ UNCHANGED <<player1, player2, winRounds>>

\* endGame that also forgets the players
EndGameDropsPlayers ==
    /\ UNCHANGED <<snap, ui>>
    /\ op' = [name |-> "endGame"]
    /\ turn' = endGame
    /\ player1' = Undefined
    /\ player2' = Undefined
    /\ ret' = RetVoid
    /\ UNCHANGED <<grid, numMarks, winRounds, lastMark>>

\* endGame that also resets the board
EndGameClears ==
    /\ UNCHANGED <<snap, ui>>
    /\ op' = [name |-> "endGame"]
    /\ turn' = endGame
    /\ grid' = resetBoard.grid
    /\ numMarks' = resetBoard.numMarks
    /\ ret' = RetVoid
    /\ UNCHANGED <<player1, player2, winRounds, lastMark>>

EndGame ==
    /\ UNCHANGED <<snap, ui>>
    /\ op' = [name |-> "endGame"]
    /\ turn' = endGame
    /\ ret' = RetVoid
    /\ UNCHANGED <<grid, numMarks, player1, player2, winRounds, lastMark>>

Next ==
    \/ \E names \in NameInputs : CreatePlayers(names[1], names[2])
    \/ PlayGame
    \/ \E i \in CoordInputs, j \in CoordInputs : PlayTurn(i, j)
    \/ EndGame

Spec == Init /\ [][Next]_vars

(***************************************************************************)
(* Rounds played to their end: createPlayers, playGame and playTurn on the *)
(* cells of the grid, with players who keep choosing an empty cell         *)
(***************************************************************************)
\* a playTurn aimed at an empty cell
RoundPlace == \E i, j \in Indices : grid[i][j] = Null /\ PlayTurn(i, j)

\* the players are created once
RoundCreatePlayers == ~PlayersExist /\ CreatePlayers("Ann", "Bo")

\* a round is started when none is in progress, and only if its turns can
\* be played
RoundPlayGame == ~hasGameBegun /\ TotalScore < MaxTotalScore /\ PlayGame

RoundNext ==
    \/ RoundCreatePlayers
    \/ RoundPlayGame
    \/ \E i, j \in Indices : PlayTurn(i, j)

RoundSpec == Init /\ [][RoundNext]_vars /\ WF_vars(RoundPlace)

(***************************************************************************)
(* gameControl with the functions that only read: getNextMark,             *)
(* hasGameBegun and getPlayerData                                          *)
(***************************************************************************)
GetNextMark ==
    /\ op' = [name |-> "getNextMark"]
    /\ ret' = Return(getNextMark)
    /\ UNCHANGED <<grid, numMarks, player1, player2, turn, winRounds, lastMark, snap, ui>>

HasGameBegun ==
    /\ op' = [name |-> "hasGameBegun"]
    /\ ret' = Return(IF hasGameBegun THEN "true" ELSE "false")
    /\ UNCHANGED <<grid, numMarks, player1, player2, turn, winRounds, lastMark, snap, ui>>

\* getPlayerData(): player1.getName() throws while player1 is undefined
GetPlayerData ==
    /\ op' = [name |-> "getPlayerData"]
    /\ ret' = IF player1 = Undefined \/ player2 = Undefined
              THEN ErrTypeError
              ELSE [thrown |-> FALSE, val |-> "object",
                    data |-> [player1 |-> player1, player2 |-> player2]]
    /\ UNCHANGED <<grid, numMarks, player1, player2, turn, winRounds, lastMark, snap, ui>>

ViewNext ==
    \/ Next
    \/ GetNextMark
    \/ HasGameBegun
    \/ GetPlayerData

ViewSpec == Init /\ [][ViewNext]_vars

(***************************************************************************)
(* gameBoard driven on its own: any mark on any cell, in any order         *)
(***************************************************************************)
BoardPlaceMark(i, j, mark) ==
    \E placed \in {placeMark(grid, numMarks, i, j, mark)} :
        /\ UNCHANGED <<snap, ui>>
        /\ op' = [name |-> "placeMark", read |-> ReadCell(grid, i, j)]
        /\ grid' = placed.grid
        /\ numMarks' = placed.numMarks
        /\ ret' = placed.ret
        /\ UNCHANGED <<player1, player2, turn, winRounds, lastMark>>

BoardResetBoard ==
    /\ UNCHANGED <<snap, ui>>
    /\ op' = [name |-> "resetBoard"]
    /\ grid' = resetBoard.grid
    /\ numMarks' = resetBoard.numMarks
    /\ ret' = RetVoid
    /\ UNCHANGED <<player1, player2, turn, winRounds, lastMark>>

BoardNext ==
    \/ \E i \in CoordInputs, j \in CoordInputs, mark \in {MARK_X, MARK_O} :
            BoardPlaceMark(i, j, mark)
    \/ BoardResetBoard

BoardSpec == Init /\ [][BoardNext]_vars
(***************************************************************************)
(* gameBoard with a caller that keeps the array getGridCopy returned and   *)
(* writes into it.  `[...grid]` makes a new outer array whose three        *)
(* elements are the board's own row arrays, so a row is one object seen    *)
(* from both sides until resetBoard gives the board new rows.              *)
(***************************************************************************)
\* the rows and columns the calls of this part use
CopyIndices == 0 .. 1

\* getGridCopy(): [...grid]
getGridCopy(g) == [rows |-> g, same |-> [r \in Indices |-> TRUE]]

\* what the held array shows once the board's rows are `g`
SeenThrough(sn, g) ==
    IF sn = NoSnap THEN NoSnap
    ELSE [sn EXCEPT !.rows = [r \in Indices |->
                                 IF sn.same[r] THEN g[r] ELSE sn.rows[r]]]

CopyPlaceMark(i, j, mark) ==
    /\ numMarks < MaxCopyMarks
    /\ \E placed \in {placeMark(grid, numMarks, i, j, mark)} :
        /\ op' = [name |-> "placeMark", read |-> ReadCell(grid, i, j)]
        /\ grid' = placed.grid
        /\ numMarks' = placed.numMarks
        /\ ret' = placed.ret
        /\ snap' = SeenThrough(snap, placed.grid)
    /\ UNCHANGED <<player1, player2, turn, winRounds, lastMark, ui>>

\* resetBoard assigns a new array to every grid[i]: the held rows stay as
\* they are and are the board's no longer
CopyResetBoard ==
    /\ op' = [name |-> "resetBoard"]
    /\ grid' = resetBoard.grid
    /\ numMarks' = resetBoard.numMarks
    /\ ret' = RetVoid
    /\ snap' = IF snap = NoSnap THEN NoSnap
               ELSE [snap EXCEPT !.same = [r \in Indices |-> FALSE]]
    /\ UNCHANGED <<player1, player2, turn, winRounds, lastMark, ui>>

CopyGetGridCopy ==
    /\ op' = [name |-> "getGridCopy"]
    /\ snap' = getGridCopy(grid)
    /\ ret' = Return("array")
    /\ UNCHANGED <<grid, numMarks, player1, player2, turn, winRounds, lastMark, ui>>

\* the caller's `copy[i][j] = v`
WriteCopyCell(i, j, v) ==
    /\ snap # NoSnap
    /\ op' = [name |-> "writeCopy"]
    /\ snap' = [snap EXCEPT !.rows[i][j] = v]
    /\ grid' = IF snap.same[i] THEN [grid EXCEPT ![i][j] = v] ELSE grid
    /\ ret' = RetVoid
    /\ UNCHANGED <<numMarks, player1, player2, turn, winRounds, lastMark, ui>>

CopyNext ==
    \/ \E i \in CopyIndices, j \in CopyIndices, mark \in {MARK_X, MARK_O} :
            CopyPlaceMark(i, j, mark)
    \/ CopyResetBoard
    \/ CopyGetGridCopy
    \/ \E i \in CopyIndices, j \in CopyIndices, v \in {MARK_X, MARK_O, Null} :
            WriteCopyCell(i, j, v)

CopySpec == Init /\ [][CopyNext]_vars

(***************************************************************************)
(* The validating gameBoard (src/script.js lines 14-122): isBlank and      *)
(* placeMark test their arguments and throw; placeMark returns nothing.    *)
(***************************************************************************)
ErrRange == Throw("Grid indices must be between 0 and 2, inclusive")
ErrMark == Throw("Mark must be either 'x' or 'o'")
ErrNotBlank == Throw("Grid cell is not blank")

\* the marks placeMark is called with: the two valid ones and another string
MarkInputs == {MARK_X, MARK_O, "z"}

\* the index test without `j > 2`
OutOfRangeNoUpperJ(i, j) == i < 0 \/ j < 0 \/ i > 2

\* the index test isBlank and placeMark both start with
OutOfRange(i, j) == i < 0 \/ j < 0 \/ i > 2 \/ j > 2

StrictIsBlank(g, i, j) ==
    IF OutOfRange(i, j) THEN ErrRange
    ELSE IF ReadCell(g, i, j) = "TypeError" THEN ErrTypeError
    ELSE Return(IF ReadCell(g, i, j) = Null THEN "true" ELSE "false")

StrictPlaceMark(g, n, i, j, mark) ==
    IF OutOfRange(i, j)
    THEN [grid |-> g, numMarks |-> n, ret |-> ErrRange]
    ELSE IF mark # MARK_X /\ mark # MARK_O
    THEN [grid |-> g, numMarks |-> n, ret |-> ErrMark]
    ELSE IF StrictIsBlank(g, i, j).thrown
    THEN [grid |-> g, numMarks |-> n, ret |-> StrictIsBlank(g, i, j)]
    ELSE IF StrictIsBlank(g, i, j) # Return("true")
    THEN [grid |-> g, numMarks |-> n, ret |-> ErrNotBlank]
    ELSE [grid |-> [g EXCEPT ![i][j] = mark], numMarks |-> n + 1, ret |-> RetVoid]

StrictCallIsBlank(i, j) ==
    /\ op' = [name |-> "isBlank", inRange |-> (i \in Indices /\ j \in Indices)]
    /\ ret' = StrictIsBlank(grid, i, j)
    /\ UNCHANGED <<grid, numMarks, player1, player2, turn, winRounds, lastMark, snap, ui>>

StrictCallPlaceMark(i, j, mark) ==
    /\ numMarks < MaxStrictMarks
    /\ \E placed \in {StrictPlaceMark(grid, numMarks, i, j, mark)} :
        /\ op' = [name |-> "placeMark",
                  inRange |-> (i \in Indices /\ j \in Indices)]
        /\ grid' = placed.grid
        /\ numMarks' = placed.numMarks
        /\ ret' = placed.ret
    /\ UNCHANGED <<player1, player2, turn, winRounds, lastMark, snap, ui>>

StrictCallResetBoard ==
    /\ op' = [name |-> "resetBoard"]
    /\ grid' = resetBoard.grid
    /\ numMarks' = resetBoard.numMarks
    /\ ret' = RetVoid
    /\ UNCHANGED <<player1, player2, turn, winRounds, lastMark, snap, ui>>

\* getGameState(): the same computation as computeState, made on request
StrictCallGetGameState ==
    /\ op' = [name |-> "getGameState"]
    /\ ret' = Return(computeState(grid, numMarks))
    /\ UNCHANGED <<grid, numMarks, player1, player2, turn, winRounds, lastMark, snap, ui>>

StrictNext ==
    \/ \E i \in CoordInputs, j \in CoordInputs : StrictCallIsBlank(i, j)
    \/ \E i \in CoordInputs, j \in CoordInputs, mark \in MarkInputs :
            StrictCallPlaceMark(i, j, mark)
    \/ StrictCallResetBoard
    \/ StrictCallGetGameState

StrictSpec == Init /\ [][StrictNext]_vars

(***************************************************************************)
(* gameControl called with names of any type.  createPlayers hands each    *)
(* name to createPlayer, which stores it without looking at it.            *)
(***************************************************************************)
\* a JavaScript value with what typeof gives for it
JsString(s) == [type |-> "string", text |-> s]
JsNumber(s) == [type |-> "number", text |-> s]

typeof(v) == v.type

\* the name pairs createPlayers is called with here: two strings, and a
\* number in the first or in the second place
AnyNameInputs ==
    {<<JsString("Ann"), JsString("Bo")>>,
     <<JsNumber("5"), JsString("Bo")>>,
     <<JsString("Ann"), JsNumber("5")>>}

\* the columns the turns of this part are played in
NameColumns == 0 .. 1

NameNext ==
    \/ \E names \in AnyNameInputs : CreatePlayers(names[1], names[2])
    \/ PlayGame
    \/ \E i \in Indices, j \in NameColumns : PlayTurn(i, j)
    \/ EndGame

NameSpec == Init /\ [][NameNext]_vars

(***************************************************************************)
(* gameDisplay: the page's event handlers.  A handler makes several calls  *)
(* on gameControl one after the other and stops at the first that throws,  *)
(* so the functions of gameControl are given here as operators from the    *)
(* session before a call to the session after it and the call's outcome.   *)
(***************************************************************************)
\* the state of gameBoard and gameControl as one value
Session ==
    [grid |-> grid, numMarks |-> numMarks,
     player1 |-> player1, player2 |-> player2, turn |-> turn]

createPlayers(s, name1, name2) ==
    IF s.player1 # Undefined /\ s.player2 # Undefined
    THEN [s |-> s, ret |-> ErrAlreadyCreated]
    ELSE IF s.turn # TurnNull
    THEN [s |-> s, ret |-> ErrInProgress]
    ELSE [s |-> [s EXCEPT !.player1 = createPlayer(name1),
                          !.player2 = createPlayer(name2)],
          ret |-> RetVoid]

playGame(s) ==
    IF s.player1 = Undefined \/ s.player2 = Undefined
    THEN [s |-> s, ret |-> ErrNoPlayers]
    ELSE IF s.turn # TurnNull
    THEN [s |-> s, ret |-> ErrInProgress]
    ELSE [s |-> [s EXCEPT !.grid = resetBoard.grid,
                          !.numMarks = resetBoard.numMarks,
                          !.turn = 1],
          ret |-> RetVoid]

playTurn(s, i, j) ==
    IF s.turn = TurnNull
    THEN [s |-> s, ret |-> ErrNotStarted]
    ELSE LET markToPlace == IF s.turn = 1 THEN MARK_X ELSE MARK_O
             placed == placeMark(s.grid, s.numMarks, i, j, markToPlace)
             gameState == placed.ret
             b == [s EXCEPT !.grid = placed.grid, !.numMarks = placed.numMarks]
         IN  IF gameState.thrown \/ gameState = RetFalse
             THEN [s |-> b, ret |-> gameState]
             ELSE IF gameState.val = states.ongoing
             THEN [s |-> [b EXCEPT !.turn = toggleTurn(s.turn)], ret |-> gameState]
             ELSE IF gameState.val = states.xWin
             THEN [s |-> [b EXCEPT !.player1 = incrementScore(@), !.turn = endGame],
                   ret |-> gameState]
             ELSE IF gameState.val = states.oWin
             THEN [s |-> [b EXCEPT !.player2 = incrementScore(@), !.turn = endGame],
                   ret |-> gameState]
             ELSE [s |-> [b EXCEPT !.turn = endGame], ret |-> gameState]

\* endGame() as a call on a session
endGameCall(s) == [s |-> [s EXCEPT !.turn = endGame], ret |-> RetVoid]

getPlayerData(s) ==
    IF s.player1 = Undefined \/ s.player2 = Undefined
    THEN [s |-> s, ret |-> ErrTypeError]
    ELSE [s |-> s, ret |-> Return("object")]

\* the operators above and the actions of gameControl are the same functions:
\* every step of an action is the step its operator computes
SessionOperatorsAgree ==
    [][ /\ \A names \in NameInputs :
              CreatePlayers(names[1], names[2])
                 => \E c \in {createPlayers(Session, names[1], names[2])} :
                       Session' = c.s /\ ret' = c.ret
        /\ PlayGame => \E g \in {playGame(Session)} : Session' = g.s /\ ret' = g.ret
        /\ EndGame => \E e \in {endGameCall(Session)} : Session' = e.s /\ ret' = e.ret
        /\ \A i, j \in CoordInputs :
              PlayTurn(i, j)
                 => \E t \in {playTurn(Session, i, j)} :
                       Session' = t.s /\ ret' = t.ret ]_vars

\* String.prototype.toUpperCase on the names the form is filled with
toUpperCase(str) ==
    CASE str = "Ann" -> "ANN"
      [] str = "Bo" -> "BO"
      [] OTHER -> str

\* the session a handler leaves and how the handler ended, stored with what
\* the handler did to the page; the histories follow the session
Leave(handler, s, r, page) ==
    /\ grid' = s.grid
    /\ numMarks' = s.numMarks
    /\ player1' = s.player1
    /\ player2' = s.player2
    /\ turn' = s.turn
    /\ op' = handler
    /\ ret' = r
    /\ ui' = page
    /\ winRounds' = IF \/ (s.player1 # player1 /\ player1 # Undefined)
                       \/ (s.player2 # player2 /\ player2 # Undefined)
                    THEN winRounds + 1 ELSE winRounds
    /\ lastMark' = IF s.numMarks = 0 THEN Null
                   ELSE IF s.grid = grid THEN lastMark
                   ELSE IF turn = 1 THEN MARK_X ELSE MARK_O
    /\ UNCHANGED snap

\* the submit handler of the create-players form, submitted with its
\* create-players button: the formdata handler puts the names in upper case,
\* then createPlayers, playGame, and the two buttons are exchanged.  The
\* dialog is opened by the button this handler removes.
SubmitPlayers(p1name, p2name) ==
    /\ ui.playersButton /\ ~ui.resultsOpen
    /\ \E c \in {createPlayers(Session, toUpperCase(p1name), toUpperCase(p2name))} :
         IF c.ret.thrown
         THEN Leave([name |-> "submit"], c.s, c.ret, ui)
         ELSE \E g \in {playGame(c.s)} :
                IF g.ret.thrown
                THEN Leave([name |-> "submit"], g.s, g.ret, ui)
                ELSE Leave([name |-> "submit"], g.s, RetVoid,
                           [ui EXCEPT !.playersButton = FALSE,
                                      !.restartShown = TRUE])

\* the same form closed with another button: the handler only resets it
SubmitOther ==
    /\ ui.playersButton /\ ~ui.resultsOpen
    /\ Leave([name |-> "submitOther"], Session, RetVoid, ui)

\* the restart handler without its call of endGame
RestartClickNoEndGame ==
    /\ ui.restartShown /\ ~ui.resultsOpen
    /\ \E g \in {playGame(Session)} :
         Leave([name |-> "restart", begun |-> hasGameBegun, marks |-> numMarks],
               g.s, g.ret, ui)

\* the restart handler giving the round it abandons to the player who was
\* not to move
RestartClickForfeit ==
    /\ ui.restartShown /\ ~ui.resultsOpen
    /\ \E e \in {endGameCall(Session)} :
         \E g \in {playGame(e.s)} :
            Leave([name |-> "restart", begun |-> hasGameBegun, marks |-> numMarks],
                  IF turn = 1 THEN [g.s EXCEPT !.player2 = incrementScore(@)]
                  ELSE IF turn = 2 THEN [g.s EXCEPT !.player1 = incrementScore(@)]
                  ELSE g.s,
                  g.ret, ui)

\* the click handler of the restart button: endGame, then playGame.  The
\* results dialog is modal, so the button is out of reach while it is open.
\* The handler is stored with whether a round was in progress and how many
\* marks the board held when the button was clicked.
RestartClick ==
    /\ ui.restartShown /\ ~ui.resultsOpen
    /\ \E e \in {endGameCall(Session)} :
         \E g \in {playGame(e.s)} :
            Leave([name |-> "restart", begun |-> hasGameBegun, marks |-> numMarks],
                  g.s, g.ret, ui)

\* handleCellClick on the cell with data-i = i and data-j = j
CellClick(i, j) ==
    /\ hasGameBegun => TotalScore < MaxTotalScore
    /\ IF ~hasGameBegun
       THEN Leave([name |-> "cellClick", state |-> "none"], Session, RetVoid, ui)
       ELSE \E t \in {playTurn(Session, i, j)} :
              IF t.ret.thrown
              THEN Leave([name |-> "cellClick", state |-> "none"], t.s, t.ret, ui)
              ELSE IF t.ret \in {Return(states.xWin), Return(states.oWin),
                                 Return(states.tie)}
              THEN \E d \in {getPlayerData(t.s)} :
                     IF d.ret.thrown
                     THEN Leave([name |-> "cellClick", state |-> t.ret.val],
                                d.s, d.ret, ui)
                     ELSE Leave([name |-> "cellClick", state |-> t.ret.val],
                                d.s, RetVoid, [ui EXCEPT !.resultsOpen = TRUE])
              ELSE Leave([name |-> "cellClick", state |-> t.ret.val],
                         t.s, RetVoid, ui)

\* the click handler of the play-again button of the results dialog:
\* the dialog is closed, then playGame
PlayAgainClick ==
    /\ ui.resultsOpen
    /\ \E g \in {playGame(Session)} :
         Leave([name |-> "playAgain"], g.s, g.ret,
               [ui EXCEPT !.resultsOpen = FALSE])

\* the results dialog closed with the Escape key: no handler runs
DismissResults ==
    /\ ui.resultsOpen
    /\ Leave([name |-> "dismiss"], Session, RetVoid,
             [ui EXCEPT !.resultsOpen = FALSE])

DisplayNext ==
    \/ \E names \in NameInputs : SubmitPlayers(names[1], names[2])
    \/ SubmitOther
    \/ RestartClick
    \/ \E i \in Indices, j \in Indices : CellClick(i, j)
    \/ PlayAgainClick
    \/ DismissResults

DisplaySpec == Init /\ [][DisplayNext]_vars

(***************************************************************************)
(* gameControl with the createPlayer that tests its argument               *)
(* (src/unnamed/part_000, lines 128-207): createPlayer throws on a name    *)
(* that is not a string, so createPlayers can stop after it has assigned   *)
(* player1 and before it assigns player2.                                  *)
(***************************************************************************)
ErrNameType == Throw("Player name must be a string type")

\* createPlayer(name) with its typeof test: the error, or the new player
createPlayerTyped(name) ==
    IF typeof(name) # "string" THEN ErrNameType
    ELSE [thrown |-> FALSE, val |-> createPlayer(name)]

\* createPlayers that throws as soon as one of the players is defined
createPlayersTypedEither(s, name1, name2) ==
    IF s.player1 # Undefined \/ s.player2 # Undefined
    THEN [s |-> s, ret |-> ErrAlreadyCreated]
    ELSE IF s.turn # TurnNull
    THEN [s |-> s, ret |-> ErrInProgress]
    ELSE IF createPlayerTyped(name1).thrown
    THEN [s |-> s, ret |-> createPlayerTyped(name1)]
    ELSE IF createPlayerTyped(name2).thrown
    THEN [s |-> [s EXCEPT !.player1 = createPlayerTyped(name1).val],
          ret |-> createPlayerTyped(name2)]
    ELSE [s |-> [s EXCEPT !.player1 = createPlayerTyped(name1).val,
                          !.player2 = createPlayerTyped(name2).val],
          ret |-> RetVoid]

\* createPlayers(name1, name2): `player1 = createPlayer(name1)` is done when
\* createPlayer(name2) throws
createPlayersTyped(s, name1, name2) ==
    IF s.player1 # Undefined /\ s.player2 # Undefined
    THEN [s |-> s, ret |-> ErrAlreadyCreated]
    ELSE IF s.turn # TurnNull
    THEN [s |-> s, ret |-> ErrInProgress]
    ELSE IF createPlayerTyped(name1).thrown
    THEN [s |-> s, ret |-> createPlayerTyped(name1)]
    ELSE IF createPlayerTyped(name2).thrown
    THEN [s |-> [s EXCEPT !.player1 = createPlayerTyped(name1).val],
          ret |-> createPlayerTyped(name2)]
    ELSE [s |-> [s EXCEPT !.player1 = createPlayerTyped(name1).val,
                          !.player2 = createPlayerTyped(name2).val],
          ret |-> RetVoid]

\* the name pairs createPlayers is called with here: those of AnyNameInputs
\* and two numbers
TypedNameInputs == AnyNameInputs \cup {<<JsNumber("5"), JsNumber("7")>>}

TypedCreatePlayers(name1, name2) ==
    \E c \in {createPlayersTyped(Session, name1, name2)} :
        /\ op' = [name |-> "createPlayers"]
        /\ player1' = c.s.player1
        /\ player2' = c.s.player2
        /\ ret' = c.ret
        /\ UNCHANGED <<grid, numMarks, turn, winRounds, lastMark, snap, ui>>

TypedNext ==
    \/ \E names \in TypedNameInputs : TypedCreatePlayers(names[1], names[2])
    \/ PlayGame
    \/ \E i \in Indices, j \in NameColumns : PlayTurn(i, j)
    \/ EndGame

TypedSpec == Init /\ [][TypedNext]_vars

(***************************************************************************)
(* The rules of the game, stated on cell coordinates                       *)
(***************************************************************************)
\* the eight lines: three rows, three columns, two diagonals
Lines ==
    {{<<r, c>> : c \in Indices} : r \in Indices}
        \cup {{<<r, c>> : r \in Indices} : c \in Indices}
        \cup {{<<d, d>> : d \in Indices}, {<<d, 2 - d>> : d \in Indices}}

HoldsLine(g, mark) == \E L \in Lines : \A c \in L : g[c[1]][c[2]] = mark

FillCount(g) == Cardinality({c \in Indices \X Indices : g[c[1]][c[2]] # Null})

RefState(g) ==
    IF HoldsLine(g, MARK_X) THEN states.xWin
    ELSE IF HoldsLine(g, MARK_O) THEN states.oWin
    ELSE IF FillCount(g) = 9 THEN states.tie
    ELSE states.ongoing

\* the lines in the order rows, columns, diagonal, anti-diagonal
LineSeq ==
    << {<<0, 0>>, <<0, 1>>, <<0, 2>>}, {<<1, 0>>, <<1, 1>>, <<1, 2>>},
       {<<2, 0>>, <<2, 1>>, <<2, 2>>}, {<<0, 0>>, <<1, 0>>, <<2, 0>>},
       {<<0, 1>>, <<1, 1>>, <<2, 1>>}, {<<0, 2>>, <<1, 2>>, <<2, 2>>},
       {<<0, 0>>, <<1, 1>>, <<2, 2>>}, {<<0, 2>>, <<1, 1>>, <<2, 0>>} >>

\* the mark that fills line n of g, Null if the line is mixed or has a gap
LineMark(g, n) ==
    IF \A c \in LineSeq[n] : g[c[1]][c[2]] = MARK_X THEN MARK_X
    ELSE IF \A c \in LineSeq[n] : g[c[1]][c[2]] = MARK_O THEN MARK_O
    ELSE Null

WinOf(mark) == IF mark = MARK_X THEN states.xWin ELSE states.oWin

\* the state as a function of the cells alone: the first filled line in the
\* order of LineSeq decides, then the number of filled cells
GridState(g) ==
    LET filled == {n \in 1 .. 8 : LineMark(g, n) # Null}
    IN  IF filled # {}
        THEN WinOf(LineMark(g, CHOOSE n \in filled : \A m \in filled : n <= m))
        ELSE IF FillCount(g) = 9 THEN states.tie
        ELSE states.ongoing

\* the number of cells of g that hold mark
CountOf(g, mark) == Cardinality({c \in Indices \X Indices : g[c[1]][c[2]] = mark})

Terminal == {Return(states.xWin), Return(states.oWin), Return(states.tie)}

(***************************************************************************)
(* Properties                                                              *)
(***************************************************************************)

\* C1: during a round, a playTurn aimed at a cell that holds a mark returns
\* false and leaves grid, fill count, turn and both players as they were; a
\* cell that holds a mark changes only when a successful playGame resets it.
C1_OccupiedCellRejected ==
    [][ /\ (op'.name = "playTurn" /\ op'.read \in {MARK_X, MARK_O})
            => (ret' = RetFalse /\ UNCHANGED <<grid, numMarks, turn, player1, player2>>)
        /\ \A i, j \in Indices :
              (grid[i][j] # Null /\ grid'[i][j] # grid[i][j])
                  => (op'.name = "playGame" /\ ret' = RetVoid) ]_vars

C1_Witness ==
    /\ op.name = "playTurn" /\ op.read \in {MARK_X, MARK_O}
    /\ ret = RetFalse /\ hasGameBegun /\ numMarks >= 2

\* C2: the scores are never negative and add up to the number of rounds won;
\* a playTurn returning xWin adds one to player 1 and leaves player 2, one
\* returning oWin adds one to player 2 and leaves player 1, and every other
\* call or result leaves both players as they were.
C2_ScoresChangeOnlyByWin ==
    /\ [](IF PlayersExist
          THEN /\ player1.score >= 0 /\ player2.score >= 0
               /\ player1.score + player2.score = winRounds
          ELSE winRounds = 0)
    /\ [][ PlayersExist =>
             IF op'.name = "playTurn" /\ ret' = Return(states.xWin)
             THEN /\ player1' = [player1 EXCEPT !.score = @ + 1]
                  /\ player2' = player2
             ELSE IF op'.name = "playTurn" /\ ret' = Return(states.oWin)
             THEN /\ player2' = [player2 EXCEPT !.score = @ + 1]
                  /\ player1' = player1
             ELSE player1' = player1 /\ player2' = player2 ]_vars

C2_Witness ==
    /\ op.name = "playTurn" /\ ret = Return(states.oWin)
    /\ PlayersExist /\ player2.score = 1 /\ player1.score = 0

\* C3: every playTurn that is not rejected writes, into one empty cell, a mark
\* other than the one the previous placement of the round wrote, and after
\* an ongoing result the turn is with the other player; a playTurn that is
\* rejected or throws leaves the turn where it was.
C3_TurnAlternates ==
    [][ /\ (op'.name = "playTurn" /\ ~ret'.thrown /\ ret' # RetFalse)
            => /\ lastMark' # lastMark
               /\ lastMark' \in {MARK_X, MARK_O}
               /\ \E i, j \in Indices :
                     /\ grid[i][j] = Null
                     /\ grid' = [grid EXCEPT ![i][j] = lastMark']
               /\ (ret' = Return(states.ongoing))
                     => (hasGameBegun' /\ turn' # turn
                         /\ lastMark' = (IF turn' = 1 THEN MARK_O ELSE MARK_X))
        /\ (op'.name = "playTurn" /\ (ret'.thrown \/ ret' = RetFalse))
            => (turn' = turn /\ lastMark' = lastMark /\ grid' = grid) ]_vars

C3_Witness ==
    /\ op.name = "playTurn" /\ ret = Return(states.ongoing)
    /\ lastMark = MARK_O /\ turn = 1 /\ numMarks = 4

\* C4: a placement that fills the ninth cell and leaves a complete line of
\* a mark returns that mark's win, never tie, and adds one to the winner.
C4_NinthCellWin ==
    [][ (op'.name = "playTurn" /\ numMarks = 8 /\ numMarks' = 9)
          => /\ HoldsLine(grid', MARK_X)
                   => /\ ret' = Return(states.xWin)
                      /\ player1'.score = player1.score + 1
             /\ HoldsLine(grid', MARK_O)
                   => /\ ret' = Return(states.oWin)
                      /\ player2'.score = player2.score + 1 ]_vars

C4_Witness ==
    /\ op.name = "playTurn" /\ numMarks = 9 /\ ret = Return(states.xWin)
    /\ HoldsLine(grid, MARK_X) /\ PlayersExist /\ player1.score = 1

\* C5: when at most one mark holds a complete line, a successful placeMark
\* returns the state of the rules: xWin if x holds a line, oWin if o does,
\* else tie on a full board, else ongoing.
C5_StateMatchesRules ==
    (/\ op.name = "placeMark" /\ op.read = Null
     /\ ~(HoldsLine(grid, MARK_X) /\ HoldsLine(grid, MARK_O)))
        => ret = Return(RefState(grid))

C5_Witness ==
    /\ op.name = "placeMark" /\ op.read = Null
    /\ FillCount(grid) = 9 /\ ret = Return(states.tie)

\* C6: playGame succeeds whenever the players exist and no round is in
\* progress, and a successful playGame leaves an empty grid, fill count 0,
\* the turn with player 1, and both players (names and scores) as they were.
C6_RestartKeepsPlayers ==
    [][ (op'.name = "playGame")
          => /\ (PlayersExist /\ ~hasGameBegun) => ret' = RetVoid
             /\ (ret' = RetVoid)
                   => /\ grid' = EmptyGrid /\ numMarks' = 0 /\ turn' = 1
                      /\ PlayersExist
                      /\ player1' = player1 /\ player2' = player2 ]_vars

C6_Witness ==
    /\ op.name = "playGame" /\ ret = RetVoid
    /\ PlayersExist /\ player2.score = 1
    /\ grid = EmptyGrid /\ turn = 1

\* C7: a terminal result of playTurn sets the turn to null; while the turn
\* is null every playTurn throws the not-started error and changes nothing,
\* and only a successful playGame changes the turn or the grid; after an
\* ongoing or a rejected result the game is still begun.
C7_ConcludedUntilPlayGame ==
    [][ /\ (op'.name = "playTurn" /\ ret' \in Terminal) => turn' = TurnNull
        /\ (op'.name = "playTurn" /\ ~hasGameBegun)
              => (ret' = ErrNotStarted /\ UNCHANGED core)
        /\ (~hasGameBegun /\ (hasGameBegun' \/ grid' # grid))
              => (op'.name = "playGame" /\ ret' = RetVoid)
        /\ (op'.name = "playTurn" /\ ret' \in {Return(states.ongoing), RetFalse})
              => hasGameBegun' ]_vars

C7_Witness ==
    /\ op.name = "playTurn" /\ ret = ErrNotStarted
    /\ winRounds = 1 /\ HoldsLine(grid, MARK_O) /\ turn = TurnNull

\* C8: playGame throws the players-first error while a player is missing and
\* the in-progress error during a round, and in both cases grid, fill count,
\* turn and players are unchanged.
C8_PlayGameFailures ==
    [][ (op'.name = "playGame")
          => /\ (~PlayersExist) => (ret' = ErrNoPlayers /\ UNCHANGED core)
             /\ (PlayersExist /\ hasGameBegun)
                   => (ret' = ErrInProgress /\ UNCHANGED core) ]_vars

C8_Witness ==
    /\ op.name = "playGame" /\ ret = ErrInProgress
    /\ hasGameBegun /\ numMarks >= 1

\* C9: a successful createPlayers defines both players, defined players stay
\* defined, and every createPlayers called when both exist throws the
\* already-created error and leaves players, turn and board unchanged.
C9_CreatePlayersOnce ==
    [][ /\ (op'.name = "createPlayers" /\ ret' = RetVoid)
              => (player1' # Undefined /\ player2' # Undefined)
        /\ PlayersExist => (player1' # Undefined /\ player2' # Undefined)
        /\ (op'.name = "createPlayers" /\ PlayersExist)
              => (ret' = ErrAlreadyCreated /\ UNCHANGED core) ]_vars

C9_Witness ==
    /\ op.name = "createPlayers" /\ ret = ErrAlreadyCreated
    /\ ~hasGameBegun /\ TotalScore = 1

\* C10 as stated: createPlayers called during a round throws the
\* in-progress error.
C10_InProgressError ==
    [][ (op'.name = "createPlayers" /\ hasGameBegun) => ret' = ErrInProgress ]_vars

\* C10: createPlayers called during a round throws the already-created
\* error, and no createPlayers call ever throws the in-progress error.
C10_AlreadyCreatedDuringRound ==
    [][ (op'.name = "createPlayers")
          => /\ hasGameBegun => (ret' = ErrAlreadyCreated /\ UNCHANGED core)
             /\ ret' # ErrInProgress ]_vars

C10_Witness ==
    /\ op.name = "createPlayers" /\ ret = ErrAlreadyCreated
    /\ hasGameBegun /\ numMarks >= 1

\* C11: writing into a cell of the array getGridCopy returned leaves the
\* board's grid as it was, and a placeMark leaves an array handed out
\* earlier as it was.
C11_CopyIsIndependent ==
    [][ /\ (op'.name = "writeCopy") => grid' = grid
        /\ (op'.name = "placeMark" /\ snap # NoSnap) => snap' = snap ]_vars

\* C12: whatever placeMark (accepted or rejected) and resetBoard calls were
\* made, numMarks is the number of non-empty cells and lies in 0..9.
C12_CountIsFilledCells ==
    numMarks = FillCount(grid) /\ numMarks \in 0 .. 9

C12_Witness ==
    /\ op.name = "placeMark" /\ op.read \in {MARK_X, MARK_O}
    /\ ret = RetFalse /\ numMarks = 5 /\ FillCount(grid) = 5

\* C13: resetBoard leaves nine empty cells and fill count 0 from any board,
\* and a second resetBoard right after changes nothing.
C13_ResetEmpties ==
    [][ (op'.name = "resetBoard")
          => /\ \A i, j \in Indices : grid'[i][j] = Null
             /\ numMarks' = 0
             /\ (op.name = "resetBoard")
                   => (grid' = grid /\ numMarks' = numMarks) ]_vars

C13_Witness ==
    /\ op.name = "resetBoard" /\ FillCount(grid) = 0 /\ numMarks = 0

\* C14: a ninth placement that leaves no complete line returns tie, leaves
\* both players as they were and sets the turn to null.
C14_NinthWithoutLineIsTie ==
    [][ (/\ op'.name = "playTurn" /\ numMarks = 8 /\ numMarks' = 9
         /\ ~HoldsLine(grid', MARK_X) /\ ~HoldsLine(grid', MARK_O))
          => /\ ret' = Return(states.tie)
             /\ player1' = player1 /\ player2' = player2
             /\ turn' = TurnNull ]_vars

C14_Witness ==
    /\ op.name = "playTurn" /\ ret = Return(states.tie)
    /\ FillCount(grid) = 9 /\ turn = TurnNull /\ TotalScore = 0

\* C15: a placement that fills the last cell of a line with the line's mark,
\* on a board that had no complete line, returns that mark's win whichever
\* cell of the line came last; and what an accepted placeMark returns is
\* the state the resulting cells alone determine.
C15_WinWhateverTheOrder ==
    [][ (op'.name = "placeMark" /\ op'.read = Null)
          => /\ \A mark \in {MARK_X, MARK_O} :
                   (/\ HoldsLine(grid', mark)
                    /\ ~HoldsLine(grid, MARK_X) /\ ~HoldsLine(grid, MARK_O))
                       => ret' = Return(WinOf(mark))
             /\ ret' = Return(GridState(grid')) ]_vars

C15_Witness ==
    /\ op.name = "placeMark" /\ op.read = Null /\ ret = Return(states.oWin)
    /\ FillCount(grid) = 3 /\ LineMark(grid, 8) = MARK_O

\* C16: endGame returns normally with the turn null and leaves grid, fill
\* count and players as they were; a second endGame right after changes
\* nothing at all.
C16_EndGameOnlyClearsTurn ==
    [][ (op'.name = "endGame")
          => /\ ret' = RetVoid
             /\ turn' = TurnNull
             /\ UNCHANGED <<grid, numMarks, player1, player2>>
             /\ (op.name = "endGame") => UNCHANGED core ]_vars

C16_Witness ==
    /\ op.name = "endGame" /\ turn = TurnNull /\ numMarks = 3
    /\ FillCount(grid) = 3 /\ PlayersExist

\* C17: getNextMark returns null when the turn is null, x on player 1's turn
\* and o on player 2's; an accepted playTurn writes, into one empty cell, the
\* mark getNextMark gives in the state it is called in; getNextMark,
\* hasGameBegun and getPlayerData change nothing.
C17_NextMarkIsMarkPlaced ==
    [][ /\ (op'.name = "getNextMark")
              => ret' = Return(IF turn = TurnNull THEN Null
                               ELSE IF turn = 1 THEN MARK_X ELSE MARK_O)
        /\ (op'.name \in {"getNextMark", "hasGameBegun", "getPlayerData"})
              => UNCHANGED <<core, snap>>
        /\ (op'.name = "playTurn" /\ ~ret'.thrown /\ ret' # RetFalse)
              => /\ getNextMark \in {MARK_X, MARK_O}
                 /\ \E i, j \in Indices :
                       /\ grid[i][j] = Null
                       /\ grid' = [grid EXCEPT ![i][j] = getNextMark]
        /\ (op.name = "getNextMark" /\ op'.name = "playTurn"
              /\ ~ret'.thrown /\ ret' # RetFalse)
              => \E i, j \in Indices :
                       /\ grid[i][j] = Null
                       /\ grid' = [grid EXCEPT ![i][j] = ret.val] ]_vars

C17_Witness ==
    /\ op.name = "getNextMark" /\ ret = Return(MARK_O)
    /\ turn = 2 /\ numMarks = 3

\* the cells of the scenario's five playTurn calls, in order
TraceMoves == << <<0, 0>>, <<1, 1>>, <<0, 1>>, <<2, 2>>, <<0, 2>> >>

\* the grid the scenario expects after its first k calls: x on the odd
\* moves, o on the even ones
TraceGrid(k) ==
    [i \in Indices |-> [j \in Indices |->
        IF \E n \in 1 .. k : TraceMoves[n] = <<i, j>>
        THEN (IF (CHOOSE n \in 1 .. k : TraceMoves[n] = <<i, j>>) % 2 = 1
              THEN MARK_X ELSE MARK_O)
        ELSE Null]]

\* the players of the scenario before anyone has scored
TracePlayers ==
    /\ player1 = [name |-> "Ann", score |-> 0]
    /\ player2 = [name |-> "Bo", score |-> 0]

\* C18: createPlayers("Ann", "Bo") on a new session and playGame succeed;
\* then playTurn on (0,0), (1,1), (0,1), (2,2) returns ongoing each time and
\* playTurn on (0,2) returns xWin, with x and o written alternately, after
\* which Ann has score 1, Bo score 0 and the game is no longer begun.
C18_ScenarioTopRow ==
    [][ /\ (op.name = "init" /\ CreatePlayers("Ann", "Bo"))
              => (ret' = RetVoid /\ TracePlayers')
        /\ (TracePlayers /\ ~hasGameBegun /\ PlayGame)
              => (ret' = RetVoid /\ grid' = TraceGrid(0) /\ hasGameBegun')
        /\ \A k \in 1 .. 5 :
              (/\ TracePlayers /\ hasGameBegun /\ grid = TraceGrid(k - 1)
               /\ PlayTurn(TraceMoves[k][1], TraceMoves[k][2]))
                 => /\ grid' = TraceGrid(k)
                    /\ IF k < 5
                       THEN /\ ret' = Return(states.ongoing)
                            /\ hasGameBegun' /\ TracePlayers'
                       ELSE /\ ret' = Return(states.xWin)
                            /\ player1' = [name |-> "Ann", score |-> 1]
                            /\ player2' = [name |-> "Bo", score |-> 0]
                            /\ ~hasGameBegun' ]_vars

C18_Witness ==
    /\ op.name = "playTurn" /\ ret = Return(states.xWin)
    /\ grid = TraceGrid(5) /\ lastMark = MARK_X /\ ~hasGameBegun
    /\ player1 = [name |-> "Ann", score |-> 1]
    /\ player2 = [name |-> "Bo", score |-> 0]

\* C19: in every state the controller reaches, x and o do not both hold a
\* complete line, so the mark computeWinningMark finds is the only mark
\* that holds one, whatever the order of its scan.
C19_OneWinnerAtMost ==
    LET holders == {mark \in {MARK_X, MARK_O} : HoldsLine(grid, mark)}
    IN  /\ Cardinality(holders) <= 1
        /\ holders = {} => computeWinningMark(grid) = Null
        /\ holders # {} => holders = {computeWinningMark(grid)}

C19_Witness ==
    /\ op.name = "playTurn" /\ ret = Return(states.xWin)
    /\ Cardinality({n \in 1 .. 8 : LineMark(grid, n) = MARK_X}) = 2

\* C20: in the validating board, isBlank and placeMark throw the index
\* error whenever the row or the column is outside 0..2, and a call of
\* either that throws (index, mark or occupied cell) leaves grid and fill
\* count as they were.
C20_StrictRejectsOutOfRange ==
    [][ (op'.name \in {"isBlank", "placeMark"})
          => /\ (~op'.inRange) => ret' = ErrRange
             /\ ret'.thrown => (grid' = grid /\ numMarks' = numMarks) ]_vars

C20_Witness ==
    /\ op.name = "placeMark" /\ ~op.inRange /\ ret = ErrRange
    /\ numMarks = 2 /\ FillCount(grid) = 2

\* C21: a createPlayers call in which name1 or name2 is not a string fails,
\* and no round is ever in progress with a player whose name is not a string.
C21_NonTextNameRejected ==
    /\ [][ \A names \in AnyNameInputs :
              (/\ typeof(names[1]) # "string" \/ typeof(names[2]) # "string"
               /\ CreatePlayers(names[1], names[2]))
                 => ret'.thrown ]_vars
    /\ [](hasGameBegun => (/\ PlayersExist
                           /\ typeof(player1.name) = "string"
                           /\ typeof(player2.name) = "string"))

\* C22: a successful createPlayers defines both players with the names it
\* was given; from then on, whatever is called, both players stay defined
\* with those names, and getPlayerData returns these two names.
C22_PlayersStay ==
    [][ /\ \A names \in NameInputs :
              (CreatePlayers(names[1], names[2]) /\ ret' = RetVoid)
                 => /\ PlayersExist'
                    /\ player1'.name = names[1] /\ player2'.name = names[2]
        /\ PlayersExist
              => /\ PlayersExist'
                 /\ player1'.name = player1.name /\ player2'.name = player2.name
        /\ (op'.name = "getPlayerData" /\ PlayersExist)
              => /\ ~ret'.thrown
                 /\ ret'.data.player1.name = player1.name
                 /\ ret'.data.player2.name = player2.name ]_vars

C22_Witness ==
    /\ op.name = "getPlayerData" /\ ~ret.thrown
    /\ ret.data.player1.name = "Bo" /\ ret.data.player2.name = "Ann"
    /\ winRounds = 1 /\ hasGameBegun /\ grid = EmptyGrid
    /\ player1.score + player2.score = 1

\* the errors with which gameControl answers a call made out of order
ProtocolErrors == {ErrAlreadyCreated, ErrNoPlayers, ErrInProgress, ErrNotStarted}

\* C23: whatever the user does on the page (the create-players form while
\* its button is there, the restart button once it is shown, play-again in
\* the open results dialog, any cell at any time), no handler ends with
\* one of gameControl's out-of-order errors.
C23_HandlersKeepTheProtocol == ret \notin ProtocolErrors

C23_Witness ==
    /\ op.name = "restart" /\ ret = RetVoid /\ hasGameBegun
    /\ winRounds = 1 /\ grid = EmptyGrid /\ ~ui.resultsOpen /\ ui.restartShown

\* C24: during a round, playTurn returns false exactly when it is aimed at a
\* cell of the grid that holds a mark; aimed at a row or a column outside
\* 0..2 it does not return false and leaves grid, fill count, turn and
\* players as they were.
C24_RejectedIffOccupied ==
    [][ (op'.name = "playTurn" /\ hasGameBegun)
          => /\ (ret' = RetFalse) <=> (op'.read \in {MARK_X, MARK_O})
             /\ (op'.read \in {"undefined", "TypeError"})
                   => /\ ret' # RetFalse
                      /\ UNCHANGED <<grid, numMarks, turn, player1, player2>> ]_vars

\* C25: the restart button (endGame, then playGame), clicked during a round
\* or after one has ended, ends normally with an empty grid, fill count 0
\* and the turn with player 1, and leaves both players, names and scores,
\* as they were.
C25_RestartAlwaysSucceeds ==
    [][ (op'.name = "restart")
          => /\ ret' = RetVoid
             /\ grid' = EmptyGrid /\ numMarks' = 0
             /\ turn' = 1 /\ getNextMark' = MARK_X
             /\ PlayersExist
             /\ player1' = player1 /\ player2' = player2 ]_vars

C25_Witness ==
    /\ op.name = "restart" /\ op.begun /\ op.marks = 5
    /\ ret = RetVoid /\ grid = EmptyGrid /\ numMarks = 0 /\ turn = 1
    /\ player1.score = 0 /\ player2.score = 0

\* C26: while a round is in progress no mark holds a complete line and the
\* fill count is at most 8: the board's state is ongoing, a cell is empty,
\* and a placeMark of the mark to move on that cell is accepted.
C26_InProgressIsOngoing ==
    hasGameBegun
        => /\ ~HoldsLine(grid, MARK_X) /\ ~HoldsLine(grid, MARK_O)
           /\ numMarks <= 8 /\ FillCount(grid) <= 8
           /\ computeState(grid, numMarks) = states.ongoing
           /\ \E i, j \in Indices :
                 /\ grid[i][j] = Null
                 /\ \E placed \in {placeMark(grid, numMarks, i, j, getNextMark)} :
                       ~placed.ret.thrown /\ placed.ret # RetFalse

C26_Witness ==
    /\ hasGameBegun /\ numMarks = 8 /\ FillCount(grid) = 8
    /\ op.name = "playTurn" /\ ret = Return(states.ongoing)

\* C27: in every state the grid holds as many x as o, or one x more; and
\* during a round the turn is with player 1 exactly when the fill count is
\* even and the two counts are equal, with player 2 exactly when it is odd.
C27_MarkCountsAndTurn ==
    /\ CountOf(grid, MARK_X) - CountOf(grid, MARK_O) \in {0, 1}
    /\ hasGameBegun
          => /\ turn \in {1, 2}
             /\ (turn = 1) <=> (numMarks % 2 = 0)
             /\ (turn = 1) <=> (CountOf(grid, MARK_X) = CountOf(grid, MARK_O))
             /\ (turn = 2) <=> (numMarks % 2 = 1)

C27_Witness ==
    /\ hasGameBegun /\ turn = 2 /\ numMarks = 5
    /\ CountOf(grid, MARK_X) = 3 /\ CountOf(grid, MARK_O) = 2

\* C28: a playTurn made on player 1's turn never returns oWin and one made
\* on player 2's turn never returns xWin; the win returned is that of the
\* mark just placed, which holds a line, and the one score that grows is
\* that of the player who placed it.
C28_WinnerJustMoved ==
    [][ (op'.name = "playTurn")
          => /\ (turn = 1) => ret' # Return(states.oWin)
             /\ (turn = 2) => ret' # Return(states.xWin)
             /\ (ret' = Return(states.xWin))
                   => /\ turn = 1 /\ lastMark' = MARK_X
                      /\ HoldsLine(grid', MARK_X) /\ ~HoldsLine(grid, MARK_X)
                      /\ player1'.score = player1.score + 1
                      /\ player2' = player2
             /\ (ret' = Return(states.oWin))
                   => /\ turn = 2 /\ lastMark' = MARK_O
                      /\ HoldsLine(grid', MARK_O) /\ ~HoldsLine(grid, MARK_O)
                      /\ player2'.score = player2.score + 1
                      /\ player1' = player1 ]_vars

C28_Witness ==
    /\ op.name = "playTurn" /\ ret = Return(states.oWin) /\ lastMark = MARK_O
    /\ numMarks = 8 /\ PlayersExist /\ player1.score = 0 /\ player2.score = 1

\* C29: the grid never holds more than 9 marks; a successful playGame leaves
\* none, every playTurn that is not rejected is made during a round and
\* adds one, so a round has at most 9 of them; a terminal result comes with
\* the fifth mark at the earliest and sets the turn to null; and with
\* players who keep choosing empty cells every round that is in progress
\* reaches a terminal result.
C29_RoundsTerminate ==
    /\ [](FillCount(grid) <= 9)
    /\ [][ /\ (op'.name = "playGame" /\ ret' = RetVoid) => FillCount(grid') = 0
           /\ (op'.name = "playTurn" /\ ~ret'.thrown /\ ret' # RetFalse)
                 => /\ hasGameBegun
                    /\ FillCount(grid') = FillCount(grid) + 1
                    /\ (ret' \in Terminal)
                          => (FillCount(grid') >= 5 /\ turn' = TurnNull) ]_vars
    /\ (hasGameBegun ~> (~hasGameBegun /\ op.name = "playTurn" /\ ret \in Terminal))

C29_Witness ==
    /\ op.name = "playTurn" /\ ret = Return(states.xWin)
    /\ FillCount(grid) = 5 /\ turn = TurnNull /\ winRounds = 1

\* C30: while a round is in progress both players are defined, and every
\* playTurn that returns a win finds the player it credits defined and
\* leaves both defined.
C30_RoundHasPlayers ==
    /\ [](hasGameBegun => PlayersExist)
    /\ [][ (op'.name = "playTurn" /\ ret' \in {Return(states.xWin), Return(states.oWin)})
             => (PlayersExist /\ PlayersExist') ]_vars

C30_Witness ==
    /\ hasGameBegun /\ turn = 1 /\ PlayersExist /\ winRounds = 1
    /\ player1.score = 1 /\ op.name = "playGame" /\ ret = RetVoid

\* the session with both players undefined
NoPlayers(s) == [s EXCEPT !.player1 = Undefined, !.player2 = Undefined]

\* C31: a createPlayers call that throws on a name that is not a string
\* leaves a player undefined, the turn null and the board as it was; while
\* a player is undefined the turn is null, playGame throws the
\* players-first error and changes nothing, and playGame, playTurn,
\* getPlayerData and createPlayers end as they do when both players are
\* undefined; a createPlayers with two strings then returns normally and
\* defines both players with the given names and score 0.
C31_FailedCreationIsNoPlayers ==
    /\ [](~PlayersExist
            => /\ turn = TurnNull
               /\ playGame(Session).ret = playGame(NoPlayers(Session)).ret
               /\ getPlayerData(Session).ret = getPlayerData(NoPlayers(Session)).ret
               /\ \A i, j \in Indices :
                     playTurn(Session, i, j).ret
                        = playTurn(NoPlayers(Session), i, j).ret
               /\ \A names \in TypedNameInputs :
                     /\ createPlayersTyped(Session, names[1], names[2]).ret
                           = createPlayersTyped(NoPlayers(Session),
                                                names[1], names[2]).ret
                     /\ (~createPlayersTyped(Session, names[1], names[2]).ret.thrown)
                           => createPlayersTyped(Session, names[1], names[2]).s
                                 = createPlayersTyped(NoPlayers(Session),
                                                      names[1], names[2]).s)
    /\ [][ /\ (op'.name = "createPlayers" /\ ret' = ErrNameType)
                 => /\ ~PlayersExist /\ ~PlayersExist'
                    /\ turn' = TurnNull
                    /\ UNCHANGED <<grid, numMarks, turn>>
           /\ (op'.name = "playGame" /\ ~PlayersExist)
                 => (ret' = ErrNoPlayers /\ turn' = TurnNull /\ UNCHANGED core)
           /\ \A names \in TypedNameInputs :
                 (/\ ~PlayersExist
                  /\ typeof(names[1]) = "string" /\ typeof(names[2]) = "string"
                  /\ TypedCreatePlayers(names[1], names[2]))
                    => /\ ret' = RetVoid
                       /\ player1' = [name |-> names[1], score |-> 0]
                       /\ player2' = [name |-> names[2], score |-> 0] ]_vars

C31_Witness ==
    /\ op.name = "playGame" /\ ret = ErrNoPlayers /\ turn = TurnNull
    /\ player1 = [name |-> JsString("Ann"), score |-> 0]
    /\ player2 = Undefined
====
